---- MODULE Spec2Model ----
(***************************************************************************)
(* The phone-number database of src/src/lib.rs: PhoneData::new (the        *)
(* loader of phone.dat) and PhoneData::find (the lookup), with the helpers *)
(* four_u8_to_i32, parse_to_record, CardType::from_u8 and get_description. *)
(*                                                                         *)
(* Text is modelled as what Rust holds: sequences of bytes (0..255).  A    *)
(* Rust panic (an index or slice out of range, an integer overflow, a str  *)
(* slice off a char boundary, a capacity overflow) is the outcome "Panic". *)
(* Numbers are i32 values; every intermediate value stays inside           *)
(* -2^31 .. 2^31-1.                                                        *)
(***************************************************************************)
EXTENDS Integers, Sequences, FiniteSets, TLC

VARIABLES
    file,          \* the bytes of phone.dat (never written)
    pos,           \* data_file: the reader's position in file
    pc,            \* where the program is
    version,       \* PhoneData.version (bytes of the String)
    records,       \* PhoneData.records
    index,         \* PhoneData.index: sequence of Index structs
    index_offset,  \* the header's index offset: i32
    index_item,    \* the 9-byte buffer of the index loop
    loadResult,    \* what PhoneData::new returned: "none" while running
    ioErrors,      \* reads that failed with an error other than end-of-file
    indexIoErrAt,  \* Len(index) when an index read first failed so, else -1
    no,            \* find's argument (bytes of the &str)
    prefix,        \* find's parsed no: i32
    left,
    mid,
    right,
    searched,      \* whether find's loop has read an index entry
    iters,         \* iterations of find's loop that went on to another
    matched,       \* position (1-based) of the entry the search matched, else 0
    findResult     \* what find returned

vars == <<file, pos, pc, version, records, index, index_offset, index_item,
          loadResult, ioErrors, indexIoErrAt, no, prefix, left, mid, right,
          searched, iters, matched, findResult>>

loadVars == <<file, pos, version, records, index, index_offset, index_item,
              loadResult, ioErrors, indexIoErrAt>>

findVars == <<no, prefix, left, mid, right, searched, iters, matched,
              findResult>>

(***************************************************************************)
(* Program constants.                                                      *)
(***************************************************************************)
HeaderLen == 8
IndexItemLen == 9
MinNoLen == 7
MaxNoLen == 11
PrefixLen == 7
NulByte == 0
PipeByte == 124

(***************************************************************************)
(* Bounds of the model.                                                    *)
(***************************************************************************)
MaxEntries == 3    \* longest index with arbitrary (unsorted, repeated) prefixes
MaxSorted == 6     \* longest strictly ascending index
MaxQueryLen == 12  \* longest query, in bytes
MaxFaults == 1     \* failing reads per load
MaxIters == 10     \* iterations of find's loop that are followed

(***************************************************************************)
(* Bytes and sequences.                                                    *)
(***************************************************************************)
IsDigitByte(b) == b >= 48 /\ b <= 57

Min(a, b) == IF a <= b THEN a ELSE b

Drop(s, n) == SubSeq(s, n + 1, Len(s))

Take(s, n) == SubSeq(s, 1, n)

RECURSIVE Repeat(_, _)
Repeat(b, n) == IF n <= 0 THEN <<>> ELSE <<b>> \o Repeat(b, n - 1)

(***************************************************************************)
(* String::from_utf8's validity check: the well-formed byte sequences of   *)
(* UTF-8 (no overlong forms, no surrogates, nothing above U+10FFFF).       *)
(***************************************************************************)
IsCont(b) == b >= 128 /\ b <= 191

\* The length of the well-formed character that starts at s[i], or 0.
Utf8Width(s, i) ==
    LET b1 == s[i]
        n == Len(s) - i + 1
    IN  IF b1 <= 127 THEN 1
        ELSE IF b1 >= 194 /\ b1 <= 223
        THEN IF n >= 2 /\ IsCont(s[i + 1]) THEN 2 ELSE 0
        ELSE IF b1 >= 224 /\ b1 <= 239
        THEN IF n >= 3 /\ IsCont(s[i + 2])
                /\ (IF b1 = 224 THEN s[i + 1] >= 160 /\ s[i + 1] <= 191
                    ELSE IF b1 = 237 THEN s[i + 1] >= 128 /\ s[i + 1] <= 159
                    ELSE IsCont(s[i + 1]))
             THEN 3 ELSE 0
        ELSE IF b1 >= 240 /\ b1 <= 244
        THEN IF n >= 4 /\ IsCont(s[i + 2]) /\ IsCont(s[i + 3])
                /\ (IF b1 = 240 THEN s[i + 1] >= 144 /\ s[i + 1] <= 191
                    ELSE IF b1 = 244 THEN s[i + 1] >= 128 /\ s[i + 1] <= 143
                    ELSE IsCont(s[i + 1]))
             THEN 4 ELSE 0
        ELSE 0

RECURSIVE Utf8From(_, _)
Utf8From(s, i) ==
    IF i > Len(s) THEN TRUE
    ELSE \E w \in 1..4 :
            /\ w = Utf8Width(s, i)
            /\ \E j \in {i + w} : Utf8From(s, j)

IsUtf8(s) == Utf8From(s, 1)

(***************************************************************************)
(* four_u8_to_i32: ret += (v as i32) << 8 * i over the slice.  `<<` on i32 *)
(* drops the bits shifted out, so a byte >= 128 at position 3 lands on the *)
(* sign bit; Shl32 is that value.  The sum then never leaves i32.          *)
(***************************************************************************)
Shl32(v, k) == IF k = 24 /\ v >= 128 THEN (v - 256) * (2 ^ 24) ELSE v * (2 ^ k)

RECURSIVE FourU8Acc(_, _, _)
FourU8Acc(s, i, ret) ==
    IF i >= Len(s) THEN ret
    ELSE FourU8Acc(s, i + 1, ret + Shl32(s[i + 1], 8 * i))

four_u8_to_i32(s) == FourU8Acc(s, 0, 0)

(***************************************************************************)
(* The reader: read_exact(n) fills the buffer from the next n bytes, or    *)
(* fails with UnexpectedEof when fewer are left.                           *)
(***************************************************************************)
Avail == Len(file) - pos

NextBytes(n) == SubSeq(file, pos + 1, pos + n)

\* DecodeIndex with the offset's slice one byte early.
DecodeIndexShifted(item) ==
    [phone_no_prefix |-> four_u8_to_i32(SubSeq(item, 1, 4)),
     records_offset  |-> four_u8_to_i32(SubSeq(item, 4, 7)),
     card_type       |-> item[9]]

DecodeIndex(item) ==
    [phone_no_prefix |-> four_u8_to_i32(SubSeq(item, 1, 4)),
     records_offset  |-> four_u8_to_i32(SubSeq(item, 5, 8)),
     card_type       |-> item[9]]

(***************************************************************************)
(* PhoneData::new.                                                         *)
(***************************************************************************)
LoadFail(result) ==
    /\ pc' = IF result = "Panic" THEN "panicked" ELSE "failed"
    /\ loadResult' = result

\* File::open succeeds.
LoadOpen ==
    /\ pc = "open"
    /\ pc' = "header"
    /\ UNCHANGED <<loadVars, findVars>>

\* File::open fails: map_err gives InvalidPhoneDatabase.
LoadOpenError ==
    /\ pc = "open"
    /\ ioErrors < MaxFaults
    /\ ioErrors' = ioErrors + 1
    /\ LoadFail("InvalidPhoneDatabase")
    /\ UNCHANGED <<file, pos, version, records, index, index_offset,
                   index_item, indexIoErrAt, findVars>>

\* The 8 header bytes: version and index offset.
LoadHeader ==
    /\ pc = "header"
    /\ IF Avail < HeaderLen
       THEN /\ LoadFail("InvalidPhoneDatabase")
            /\ pos' = Len(file)
            /\ UNCHANGED <<version, index_offset>>
       ELSE LET header_buffer == NextBytes(HeaderLen)
            IN  /\ pos' = pos + HeaderLen
                /\ IF ~IsUtf8(Take(header_buffer, 4))
                   THEN /\ LoadFail("InvalidPhoneDatabase")
                        /\ UNCHANGED <<version, index_offset>>
                   ELSE /\ version' = Take(header_buffer, 4)
                        /\ index_offset' = four_u8_to_i32(Drop(header_buffer, 4))
                        /\ pc' = "records"
                        /\ UNCHANGED loadResult
    /\ UNCHANGED <<file, records, index, index_item, ioErrors, indexIoErrAt,
                   findVars>>

\* The header read fails with an I/O error.
LoadHeaderIoError ==
    /\ pc = "header"
    /\ ioErrors < MaxFaults
    /\ ioErrors' = ioErrors + 1
    /\ LoadFail("InvalidPhoneDatabase")
    /\ UNCHANGED <<file, pos, version, records, index, index_offset,
                   index_item, indexIoErrAt, findVars>>

\* vec![0u8; index_offset as usize - 8] and the read of the records.  A
\* negative i32 sign-extends to a usize above isize::MAX and an index_offset
\* of 0..7 overflows the subtraction (a panic when overflow is checked, a
\* wrapped length above isize::MAX when it is not): the vec! panics either way.
RecordsLenPanics(offset) == offset < HeaderLen

LoadRecords ==
    /\ pc = "records"
    /\ IF RecordsLenPanics(index_offset)
       THEN /\ LoadFail("Panic")
            /\ UNCHANGED <<pos, records>>
       ELSE LET n == index_offset - HeaderLen
            IN  IF Avail < n
                THEN /\ LoadFail("InvalidPhoneDatabase")
                     /\ pos' = Len(file)
                     /\ UNCHANGED records
                ELSE /\ records' = NextBytes(n)
                     /\ pos' = pos + n
                     /\ pc' = "index"
                     /\ UNCHANGED loadResult
    /\ UNCHANGED <<file, version, index, index_offset, index_item, ioErrors,
                   indexIoErrAt, findVars>>

\* The read of the records fails with an I/O error.
LoadRecordsIoError ==
    /\ pc = "records"
    /\ ~RecordsLenPanics(index_offset)
    /\ ioErrors < MaxFaults
    /\ ioErrors' = ioErrors + 1
    /\ LoadFail("InvalidPhoneDatabase")
    /\ UNCHANGED <<file, pos, version, records, index, index_offset,
                   index_item, indexIoErrAt, findVars>>

\* One iteration of the index loop whose read_exact returns Ok or
\* UnexpectedEof; on UnexpectedEof the loop breaks and new returns Ok.
LoadIndexEntry ==
    /\ pc = "index"
    /\ IF Avail >= IndexItemLen
       THEN /\ index_item' = NextBytes(IndexItemLen)
            /\ pos' = pos + IndexItemLen
            /\ index' = Append(index, DecodeIndex(index_item'))
            /\ UNCHANGED <<pc, loadResult>>
       ELSE /\ index_item' = NextBytes(Avail) \o Drop(index_item, Avail)
            /\ pos' = Len(file)
            /\ pc' = "loaded"
            /\ loadResult' = "Ok"
            /\ UNCHANGED index
    /\ UNCHANGED <<file, version, records, index_offset, ioErrors,
                   indexIoErrAt, findVars>>

\* One iteration whose read_exact returns another error, after k bytes went
\* into the buffer: the match arm `_ => ()` falls through to the push.
LoadIndexIoError ==
    /\ pc = "index"
    /\ ioErrors < MaxFaults
    /\ \E k \in 0..Min(IndexItemLen - 1, Avail) :
          /\ index_item' = NextBytes(k) \o Drop(index_item, k)
          /\ pos' = pos + k
    /\ index' = Append(index, DecodeIndex(index_item'))
    /\ ioErrors' = ioErrors + 1
    /\ indexIoErrAt' = IF indexIoErrAt = -1 THEN Len(index) ELSE indexIoErrAt
    /\ UNCHANGED <<file, pc, version, records, index_offset, loadResult,
                   findVars>>

(***************************************************************************)
(* parse_to_record: the record at offset - 8 of the records, up to the     *)
(* first NUL, as 4 fields between '|'.                                     *)
(***************************************************************************)
\* slice.splitn(2, |i| *i == 0).nth(0): the bytes before the first NUL, or all.
RECURSIVE UpToNul(_)
UpToNul(s) ==
    IF s = <<>> \/ s[1] = NulByte THEN <<>>
    ELSE <<s[1]>> \o UpToNul(Tail(s))

\* str::split('|'): the pieces between the separators, at least one.
RECURSIVE SplitAcc(_, _, _)
SplitAcc(s, cur, out) ==
    IF s = <<>> THEN Append(out, cur)
    ELSE IF s[1] = PipeByte THEN SplitAcc(Tail(s), <<>>, Append(out, cur))
    ELSE SplitAcc(Tail(s), Append(cur, s[1]), out)

Split(s) == SplitAcc(s, <<>>, <<>>)

Err(e) == [kind |-> "Err", err |-> e, f |-> <<>>]

\* `offset as usize` of a negative i32 is above every length, and offset - 8
\* with offset in 0..7 overflows (a panic when checked, a wrapped start above
\* every length when not): the slice panics either way.
SliceStartPanics(offset, len) == offset < HeaderLen \/ offset - HeaderLen > len

parse_to_record(recs, offset) ==
    IF SliceStartPanics(offset, Len(recs))
    THEN [kind |-> "Panic", err |-> "", f |-> <<>>]
    ELSE LET record == UpToNul(Drop(recs, offset - HeaderLen))
         IN  IF ~IsUtf8(record) THEN Err("InvalidPhoneDatabase")
             ELSE LET fields == Split(record)
                  IN  IF Len(fields) # 4 THEN Err("InvalidPhoneDatabase")
                      ELSE [kind |-> "Ok", err |-> "", f |-> fields]

(***************************************************************************)
(* CardType.  The descriptions stand for the source's literals, in order:  *)
(* 中国移动, 中国联通, 中国电信, 中国电信虚拟运营商, 中国联通虚拟运营商,   *)
(* 中国移动虚拟运营商, 中国广电, 中国广电虚拟运营商.                       *)
(***************************************************************************)
\* from_u8 without the arms of the two carriers added last.
from_u8_six(i) ==
    CASE i = 1 -> "Cmcc"
      [] i = 2 -> "Cucc"
      [] i = 3 -> "Ctcc"
      [] i = 4 -> "CtccV"
      [] i = 5 -> "CuccV"
      [] i = 6 -> "CmccV"
      [] OTHER -> "InvalidOpNo"

from_u8(i) ==
    CASE i = 1 -> "Cmcc"
      [] i = 2 -> "Cucc"
      [] i = 3 -> "Ctcc"
      [] i = 4 -> "CtccV"
      [] i = 5 -> "CuccV"
      [] i = 6 -> "CmccV"
      [] i = 7 -> "Cbcc"
      [] i = 8 -> "CbccV"
      [] OTHER -> "InvalidOpNo"

get_description(c) ==
    CASE c = "Cmcc"  -> "China Mobile"
      [] c = "Cucc"  -> "China Unicom"
      [] c = "Ctcc"  -> "China Telecom"
      [] c = "CtccV" -> "China Telecom virtual operator"
      [] c = "CuccV" -> "China Unicom virtual operator"
      [] c = "CmccV" -> "China Mobile virtual operator"
      [] c = "Cbcc"  -> "China Broadnet"
      [] c = "CbccV" -> "China Broadnet virtual operator"

(***************************************************************************)
(* find.                                                                   *)
(***************************************************************************)
\* LengthInvalid with the lower comparison off by one.
LengthInvalidOffByOne(len) == len <= MinNoLen \/ len > MaxNoLen

LengthInvalid(len) == len < MinNoLen \/ len > MaxNoLen

\* str::is_char_boundary, which no[..7] asserts: the byte after the cut does
\* not continue a character.
IsCharBoundary(s, i) ==
    i = 0 \/ i = Len(s) \/ (i < Len(s) /\ ~IsCont(s[i + 1]))

\* i32::from_str: an optional sign, then one or more decimal digits.
RECURSIVE DigitsAcc(_, _)
DigitsAcc(s, acc) ==
    IF s = <<>> THEN [ok |-> TRUE, val |-> acc]
    ELSE IF ~IsDigitByte(s[1]) THEN [ok |-> FALSE, val |-> 0]
    ELSE DigitsAcc(Tail(s), acc * 10 + (s[1] - 48))

ParseI32(s) ==
    IF s = <<>> THEN [ok |-> FALSE, val |-> 0]
    ELSE IF s[1] \in {43, 45}
    THEN IF Len(s) = 1 THEN [ok |-> FALSE, val |-> 0]
         ELSE LET d == DigitsAcc(Tail(s), 0)
              IN  IF s[1] = 45 THEN [ok |-> d.ok, val |-> 0 - d.val] ELSE d
    ELSE DigitsAcc(s, 0)

NoResult == [kind |-> "none", err |-> "", province |-> <<>>, city |-> <<>>,
             zip_code |-> <<>>, area_code |-> <<>>, card_type |-> ""]

FindErr(e) == [NoResult EXCEPT !.kind = "Err", !.err = e]

FindPanic == [NoResult EXCEPT !.kind = "Panic"]

\* Lines 128..138: the length check, the parse of no[..7], the loop's bounds.
FindStart(number) ==
    /\ pc = "loaded"
    /\ no' = number
    /\ IF LengthInvalid(Len(number))
       THEN /\ findResult' = FindErr("InvalidLength")
            /\ pc' = "done"
            /\ UNCHANGED <<prefix, left, mid, right>>
       ELSE IF ~IsCharBoundary(number, PrefixLen)
       THEN /\ findResult' = FindPanic
            /\ pc' = "done"
            /\ UNCHANGED <<prefix, left, mid, right>>
       ELSE LET p == ParseI32(Take(number, PrefixLen))
            IN  IF ~p.ok
                THEN /\ findResult' = FindErr("InvalidPhoneDatabase")
                     /\ pc' = "done"
                     /\ UNCHANGED <<prefix, left, mid, right>>
                ELSE /\ prefix' = p.val
                     /\ left' = 0
                     /\ mid' = 0
                     /\ right' = Len(index)
                     /\ pc' = "search"
                     /\ UNCHANGED findResult
    /\ UNCHANGED <<loadVars, searched, iters, matched>>

\* Lines 152..160: the matched entry's record and carrier.
Resolve(mid_index) ==
    LET record == parse_to_record(records, mid_index.records_offset)
        card_type == from_u8(mid_index.card_type)
    IN  IF record.kind = "Panic" THEN FindPanic
        ELSE IF record.kind = "Err" THEN FindErr(record.err)
        ELSE IF card_type = "InvalidOpNo" THEN FindErr("InvalidOpNo")
        ELSE [kind |-> "Ok", err |-> "",
              province |-> record.f[1], city |-> record.f[2],
              zip_code |-> record.f[3], area_code |-> record.f[4],
              card_type |-> get_description(card_type)]

\* NewMid rounding up.
NewMidCeil(l, r) == (l + r + 1) \div 2

NewMid(l, r) == (l + r) \div 2

\* Stalled as a textbook search ends: when the bounds have met.
StalledWhenEmpty(new_mid, m) == left >= right

Stalled(new_mid, m) == new_mid = m

\* One iteration of the loop of lines 139..162, from the bounds l, m, r: the
\* bounds after it, whether it read an entry, the entry it matched (or 0)
\* and, when the loop breaks, find's result.
Iteration(l, m, r) ==
    LET new_mid == NewMid(l, r)
        go == [left |-> l, mid |-> new_mid, right |-> r, read |-> FALSE,
               matched |-> 0, result |-> NoResult]
    IN  IF Stalled(new_mid, m)
        THEN [go EXCEPT !.mid = m, !.result = FindErr("NotFound")]
        ELSE IF new_mid >= Len(index)
        THEN [go EXCEPT !.result = FindPanic]
        ELSE LET mid_index == index[new_mid + 1]
                 cur_phone == mid_index.phone_no_prefix
             IN  IF cur_phone > prefix
                 THEN [go EXCEPT !.read = TRUE, !.right = new_mid]
                 ELSE IF cur_phone < prefix
                 THEN [go EXCEPT !.read = TRUE, !.left = new_mid]
                 ELSE [go EXCEPT !.read = TRUE, !.matched = new_mid + 1,
                                 !.result = Resolve(mid_index)]

SearchStep ==
    /\ pc = "search"
    /\ iters < MaxIters
    /\ LET it == Iteration(left, mid, right)
       IN  /\ left' = it.left
           /\ mid' = it.mid
           /\ right' = it.right
           /\ searched' = (searched \/ it.read)
           /\ matched' = it.matched
           /\ findResult' = it.result
           /\ pc' = IF it.result.kind = "none" THEN "search" ELSE "done"
           /\ iters' = IF it.result.kind = "none" THEN iters + 1 ELSE iters
    /\ UNCHANGED <<loadVars, no, prefix>>

\* find has returned; the caller may ask again.
FindReturn ==
    /\ pc = "done"
    /\ pc' = "loaded"
    /\ no' = <<>>
    /\ prefix' = 0
    /\ left' = 0
    /\ mid' = 0
    /\ right' = 0
    /\ searched' = FALSE
    /\ iters' = 0
    /\ matched' = 0
    /\ findResult' = NoResult
    /\ UNCHANGED loadVars

(***************************************************************************)
(* The inputs: database files as a writer lays them out, and queries.      *)
(***************************************************************************)
\* n as `width` decimal digits.
RECURSIVE DigitsOf(_, _)
DigitsOf(n, width) ==
    IF width = 0 THEN <<>>
    ELSE DigitsOf(n \div 10, width - 1) \o <<48 + (n % 10)>>

\* The 4 bytes of the i32 n, least significant first.
Le32(n) == [i \in 1..4 |-> (n \div (256 ^ (i - 1))) % 256]

Entry(p, o, c) == [phone_no_prefix |-> p, records_offset |-> o, card_type |-> c]

EncodeEntry(e) ==
    Le32(e.phone_no_prefix) \o Le32(e.records_offset) \o <<e.card_type>>

RECURSIVE EncodeIndex(_)
EncodeIndex(idx) ==
    IF idx = <<>> THEN <<>> ELSE EncodeEntry(idx[1]) \o EncodeIndex(Tail(idx))

MkFile(ver, recs, idx, tail) ==
    ver \o Le32(HeaderLen + Len(recs)) \o recs \o EncodeIndex(idx) \o tail

Ver == <<50, 49, 48, 56>>                               \* "2108"

RecA == <<97, 124, 98, 124, 99, 124, 100, 0>>           \* "a|b|c|d\0"
RecB == <<195, 169, 124, 102, 124, 103, 124, 104, 0>>   \* "é|f|g|h\0"
RecThree == <<120, 124, 121, 124, 122, 0>>              \* "x|y|z\0"
RecNotUtf8 == <<255, 124, 49, 124, 50, 124, 51, 0>>     \* 0xFF "|1|2|3\0"
RecLast == <<112, 124, 113, 124, 114, 124, 115>>        \* "p|q|r|s", no NUL

Blob == RecA \o RecB \o RecThree \o RecNotUtf8 \o RecLast

OffA == HeaderLen
OffB == OffA + Len(RecA)
OffThree == OffB + Len(RecB)
OffNotUtf8 == OffThree + Len(RecThree)
OffLast == OffNotUtf8 + Len(RecNotUtf8)
OffEnd == HeaderLen + Len(Blob)

\* Offsets of whole records, inside a record, at and past the end of the
\* blob, below the header size and negative.
Offsets == {OffA, OffB, OffThree, OffNotUtf8, OffLast, OffEnd, OffEnd + 1,
            OffA + 2, 7, 0, -1}

CardTypes == (0..9) \cup {255}

\* The payload a well-formed entry at position i carries.
GoodOffset(i) == IF i % 2 = 1 THEN OffA ELSE OffB

GoodCard(i) == ((i - 1) % 8) + 1

PrefixAt(i) == 1380011 + 2 * i

\* Strictly ascending indexes of every length up to MaxSorted; the one of
\* length 1 is {prefix: 1380013, offset: 8, card_type: 1}.
SortedIndex(n) == [i \in 1..n |-> Entry(PrefixAt(i), GoodOffset(i), GoodCard(i))]

SortedIndexes == {SortedIndex(n) : n \in 0..MaxSorted}

\* Every order of up to MaxEntries prefixes, repeats included.
ArbitraryIndexes ==
    UNION {{[i \in 1..n |-> Entry(ps[i], GoodOffset(i), GoodCard(i))] :
               ps \in [1..n -> {PrefixAt(1), PrefixAt(2), PrefixAt(3)}]} :
           n \in 0..MaxEntries}

\* A good entry, then one with any offset and any card type.
PayloadIndexes ==
    {<<Entry(PrefixAt(1), OffA, 1), Entry(PrefixAt(2), o, c)>> :
        o \in Offsets, c \in CardTypes}

\* A negative prefix, which a file can hold.
SignedIndexes == {<<Entry(-100001, OffA, 1), Entry(100001, OffB, 2)>>}

Indexes == SortedIndexes \cup ArbitraryIndexes \cup PayloadIndexes \cup SignedIndexes

Files == {MkFile(Ver, Blob, idx, <<>>) : idx \in Indexes}
            \cup {MkFile(Ver, <<>>, <<>>, <<>>)}

\* Queries by length: digits, letters and two-byte characters.
LengthQueries ==
    {Take(DigitsOf(PrefixAt(1), PrefixLen) \o Repeat(48, MaxQueryLen), n) :
        n \in 0..MaxQueryLen}
    \cup {Repeat(97, n) : n \in 0..MaxQueryLen}
    \cup {Repeat(43, n) : n \in 0..MaxQueryLen}
    \cup {Take(Repeat(195, 1) \o Repeat(169, 1) \o Repeat(49, MaxQueryLen), n) :
            n \in 2..MaxQueryLen}

\* Queries by prefix: below, between, on and above the prefixes of the indexes.
PrefixValues == (PrefixAt(1) - 1)..(PrefixAt(MaxSorted) + 1) \cup {0, 123, 9999999}

PrefixQueries == {DigitsOf(v, PrefixLen) \o Repeat(48, v % 5) : v \in PrefixValues}

\* Queries with something else than a digit among the first bytes.
WithByteAt(s, i, b) == [j \in 1..Len(s) |-> IF j = i THEN b ELSE s[j]]

OddQueries ==
    {WithByteAt(DigitsOf(PrefixAt(1), PrefixLen + 1), i, 97) : i \in 1..(PrefixLen + 1)}
    \cup {<<sign>> \o DigitsOf(100001, PrefixLen - 1) \o tail :
            sign \in {43, 45}, tail \in {<<>>, <<48, 48>>}}
    \cup {<<43, 45>> \o DigitsOf(10001, PrefixLen - 2),
          DigitsOf(138001, PrefixLen - 1) \o <<195, 169>>,
          <<195, 169>> \o DigitsOf(13800, PrefixLen - 2),
          DigitsOf(PrefixAt(1), PrefixLen) \o <<195, 169>>,
          DigitsOf(PrefixAt(1), PrefixLen) \o <<32>>,
          <<32>> \o DigitsOf(138001, PrefixLen - 1)}

Queries == LengthQueries \cup PrefixQueries \cup OddQueries

(***************************************************************************)
(* The lookup over a loaded database, read from a disk that does not fail. *)
(***************************************************************************)
InitWith(f) ==
    /\ file = f
    /\ pos = 0
    /\ pc = "open"
    /\ version = <<>>
    /\ records = <<>>
    /\ index = <<>>
    /\ index_offset = 0
    /\ index_item = Repeat(0, IndexItemLen)
    /\ loadResult = "none"
    /\ ioErrors = 0
    /\ indexIoErrAt = -1
    /\ no = <<>>
    /\ prefix = 0
    /\ left = 0
    /\ mid = 0
    /\ right = 0
    /\ searched = FALSE
    /\ iters = 0
    /\ matched = 0
    /\ findResult = NoResult

Init == \E f \in Files : InitWith(f)

Find == \E number \in Queries : FindStart(number)

Next ==
    \/ LoadOpen
    \/ LoadHeader
    \/ LoadRecords
    \/ LoadIndexEntry
    \/ Find
    \/ SearchStep
    \/ FindReturn

Spec == Init /\ [][Next]_vars

\* The loop of find runs on: nothing suspends it.
(***************************************************************************)
(* The loader alone, over well-formed, cut and malformed files, read from  *)
(* a disk on which up to MaxFaults reads fail.                             *)
(***************************************************************************)
\* f with the header's index offset replaced by v.
WithIndexOffset(f, v) == Take(f, 4) \o Le32(v) \o Drop(f, HeaderLen)

BaseFile == MkFile(Ver, RecA, SortedIndex(2), <<>>)

\* Every cut of a file: short headers, short records, partial last entries.
CutFiles == {Take(BaseFile, n) : n \in 0..Len(BaseFile)}

\* Index offsets below, at and above the header size, at and past the end of
\* the file, and with the sign bit set.
HeaderOffsets ==
    {0, 1, 7, 8, 9, 16, 17, Len(BaseFile), Len(BaseFile) + 1, -1, -8,
     2 ^ 24, (0 - 2147483647) - 1, 2147483647}

OffsetFiles ==
    {WithIndexOffset(Take(BaseFile, n), v) :
        n \in {HeaderLen, Len(BaseFile) - 1, Len(BaseFile)}, v \in HeaderOffsets}

\* Version tags: ASCII, two-, three- and four-byte characters, and bytes
\* that are not UTF-8 (a stray 0xFF, a cut character, an overlong form, a
\* surrogate).
Versions ==
    {Ver, <<195, 169, 48, 56>>, <<228, 184, 173, 56>>, <<240, 159, 152, 128>>,
     <<255, 49, 48, 56>>, <<50, 49, 48, 195>>, <<192, 128, 48, 56>>,
     <<237, 160, 128, 56>>, <<128, 49, 48, 56>>}

VersionFiles ==
    {v \o Drop(Take(BaseFile, n), 4) :
        v \in Versions, n \in {Len(BaseFile) - 1, Len(BaseFile)}}

\* Index entries of any bytes, and 5 bytes of another after them.
Quads == {<<0, 0, 0, 0>>, <<255, 255, 255, 255>>, <<0, 0, 0, 128>>,
          <<255, 255, 255, 127>>, <<1, 2, 3, 4>>, <<128, 0, 255, 1>>}

RawFiles ==
    {MkFile(Ver, RecA, <<Entry(PrefixAt(1), OffA, 1)>>,
            p \o o \o <<c>> \o <<1, 2, 3, 4, 5>>) :
        p \in Quads, o \in Quads, c \in {0, 8, 255}}

LoadFiles == CutFiles \cup OffsetFiles \cup VersionFiles \cup RawFiles

LoadInit == \E f \in LoadFiles : InitWith(f)

LoadNext ==
    \/ LoadOpen
    \/ LoadOpenError
    \/ LoadHeader
    \/ LoadHeaderIoError
    \/ LoadRecords
    \/ LoadRecordsIoError
    \/ LoadIndexEntry
    \/ LoadIndexIoError

LoadSpec == LoadInit /\ [][LoadNext]_vars

(***************************************************************************)
(* What the file format says, stated apart from the code above.            *)
(***************************************************************************)
\* The little-endian two's-complement value of 4 bytes.
LeValue(b) ==
    b[1] + 256 * b[2] + 65536 * b[3]
        + 16777216 * (IF b[4] >= 128 THEN b[4] - 256 ELSE b[4])

HeaderIndexOffset(f) == LeValue(SubSeq(f, 5, 8))

EntryAt(f, at) ==
    Entry(LeValue(SubSeq(f, at + 1, at + 4)), LeValue(SubSeq(f, at + 5, at + 8)),
          f[at + 9])

\* The entries of file f, in file order, any partial last one left out.
ExpectedIndex(f) ==
    LET off == HeaderIndexOffset(f)
    IN  [i \in 1..((Len(f) - off) \div 9) |-> EntryAt(f, off + 9 * (i - 1))]

\* The value of a string of decimal digits.
DecimalValue(s) ==
    LET RECURSIVE Sum(_)
        Sum(i) == IF i = 0 THEN 0 ELSE 10 * Sum(i - 1) + (s[i] - 48)
    IN  Sum(Len(s))

AllDigits(s) == \A i \in 1..Len(s) : s[i] \in 48..57

ValidLength(s) == Len(s) >= 7 /\ Len(s) <= 11

\* The record that file offset o points at: the bytes up to the next NUL.
NulAfter(recs, o) ==
    CHOOSE j \in (o - 7)..Len(recs) :
        recs[j] = 0 /\ \A k \in (o - 7)..(j - 1) : recs[k] # 0

RecordBytes(recs, o) == SubSeq(recs, o - 7, NulAfter(recs, o) - 1)

Pipes(r) == {j \in 1..Len(r) : r[j] = 124}

\* The k-th of the fields of r between its '|'.
FieldOf(r, k) ==
    LET cuts == {0, Len(r) + 1} \cup Pipes(r)
        from == CHOOSE a \in cuts : Cardinality({c \in cuts : c < a}) = k - 1
        to   == CHOOSE a \in cuts : Cardinality({c \in cuts : c < a}) = k
    IN  SubSeq(r, from + 1, to - 1)

\* File offset o points at a NUL-terminated record of 4 fields in the blob.
PointsAtRecord(recs, o) ==
    /\ o >= 8
    /\ \E j \in (o - 7)..Len(recs) : recs[j] = 0
    /\ Cardinality(Pipes(RecordBytes(recs, o))) = 3
    /\ IsUtf8(RecordBytes(recs, o))

WellFormedDb ==
    /\ loadResult = "Ok"
    /\ \A i \in 1..(Len(index) - 1) :
          index[i].phone_no_prefix < index[i + 1].phone_no_prefix
    /\ \A i \in 1..Len(index) :
          /\ index[i].card_type \in 1..8
          /\ PointsAtRecord(records, index[i].records_offset)

Descriptions ==
    <<"China Mobile", "China Unicom", "China Telecom",
      "China Telecom virtual operator", "China Unicom virtual operator",
      "China Mobile virtual operator", "China Broadnet",
      "China Broadnet virtual operator">>

ExpectedInfo(e) ==
    LET r == RecordBytes(records, e.records_offset)
    IN  [kind |-> "Ok", err |-> "",
         province |-> FieldOf(r, 1), city |-> FieldOf(r, 2),
         zip_code |-> FieldOf(r, 3), area_code |-> FieldOf(r, 4),
         card_type |-> Descriptions[e.card_type]]

LoadFinished == pc \in {"loaded", "failed", "panicked"}

(***************************************************************************)
(* The claims.                                                             *)
(***************************************************************************)
\* C1: on a well-formed database (index strictly ascending, every offset at
\* a 4-field NUL-terminated record, every card type in 1..8), find of a
\* 7..11 digit number whose first 7 digits are an entry's prefix returns Ok
\* with that entry's record fields and carrier description.
C1_RoundTrip ==
    (/\ pc = "done"
     /\ WellFormedDb
     /\ ValidLength(no)
     /\ AllDigits(no))
    => \A i \in 1..Len(index) :
          index[i].phone_no_prefix = DecimalValue(Take(no, 7))
              => findResult = ExpectedInfo(index[i])

\* C1 as the code has it: the round trip holds on every well-formed
\* database but the ones of a single entry.
C1_RoundTripTwoOrMore ==
    (/\ pc = "done"
     /\ WellFormedDb
     /\ Len(index) # 1
     /\ ValidLength(no)
     /\ AllDigits(no))
    => \A i \in 1..Len(index) :
          index[i].phone_no_prefix = DecimalValue(Take(no, 7))
              => findResult = ExpectedInfo(index[i])

\* The first entry of a longer index is found.
C1_Witness ==
    /\ pc = "done"
    /\ WellFormedDb
    /\ Len(index) >= 2
    /\ matched = 1
    /\ findResult = ExpectedInfo(index[1])

\* C2: the loop of find always ends, in a match or in NotFound, whatever the
\* index (empty, one entry, unsorted) and the prefix: it never goes into
\* more further iterations than the index has entries, so the next one is
\* always within the iterations the model follows.
C2_Terminates ==
    pc = "search" => iters <= Len(index) /\ iters < MaxIters

C2_Witness ==
    /\ pc = "done"
    /\ iters = 3
    /\ left > 0
    /\ right < Len(index)
    /\ findResult = FindErr("NotFound")

\* C3: a 7..11 digit query whose 7-digit prefix no entry holds gets NotFound,
\* on every database, the empty and the single-entry ones included.
C3_AbsentNotFound ==
    (/\ pc = "done"
     /\ ValidLength(no)
     /\ AllDigits(no)
     /\ \A i \in 1..Len(index) :
           index[i].phone_no_prefix # DecimalValue(Take(no, 7)))
    => findResult = FindErr("NotFound")

C3_Witness ==
    /\ pc = "done"
    /\ ValidLength(no)
    /\ AllDigits(no)
    /\ Len(index) >= 2
    /\ searched
    /\ \A i \in 1..Len(index) :
          index[i].phone_no_prefix # DecimalValue(Take(no, 7))
    /\ findResult = FindErr("NotFound")

\* C4: when the matched entry's records_offset - 8 is negative or past the
\* end of the records, find returns InvalidPhoneDatabase; it does not panic.
C4_BadOffsetIsTypedError ==
    (/\ pc = "done"
     /\ matched # 0
     /\ \/ index[matched].records_offset - 8 < 0
        \/ index[matched].records_offset - 8 > Len(records))
    => findResult = FindErr("InvalidPhoneDatabase")

\* C5: new returns InvalidPhoneDatabase, and does not panic, when the file
\* has fewer than 8 bytes, when the header's index offset is below 8
\* (negative included), and when fewer than index_offset - 8 bytes follow
\* the header.
C5_MalformedHeaderIsTypedError ==
    (/\ LoadFinished
     /\ \/ Len(file) < 8
        \/ HeaderIndexOffset(file) < 8
        \/ Len(file) < HeaderIndexOffset(file))
    => loadResult = "InvalidPhoneDatabase"

\* C6: find returns InvalidLength exactly when the query has fewer than 7 or
\* more than 11 bytes, whatever the bytes and the index; with 7..11 bytes it
\* goes on and never returns InvalidLength.
C6_LengthFirst ==
    pc \in {"search", "done"}
    => IF Len(no) < 7 \/ Len(no) > 11
       THEN pc = "done" /\ findResult = FindErr("InvalidLength") /\ ~searched
       ELSE findResult.err # "InvalidLength"

C6_Witness ==
    /\ pc = "done"
    /\ Len(no) = 6
    /\ ~AllDigits(no)
    /\ Len(index) >= 2
    /\ findResult = FindErr("InvalidLength")

\* C7: a query of 7..11 bytes with anything but a decimal digit among its
\* first 7 gets InvalidPhoneDatabase, and the index is not searched.
C7_NonDigitIsRejected ==
    (/\ pc \in {"search", "done"}
     /\ ValidLength(no)
     /\ ~AllDigits(Take(no, 7)))
    => /\ pc = "done"
       /\ findResult = FindErr("InvalidPhoneDatabase")
       /\ ~searched

\* C8: on a match whose record decodes to 4 fields, find returns Ok with the
\* carrier's description for card types 1..8, eight different descriptions,
\* and InvalidOpNo for every other card type.
C8_CarrierMapping ==
    /\ \A c, d \in 1..8 :
          /\ from_u8(c) # "InvalidOpNo"
          /\ from_u8(d) # "InvalidOpNo"
          /\ c # d => get_description(from_u8(c)) # get_description(from_u8(d))
    /\ (/\ pc = "done"
        /\ matched # 0
        /\ parse_to_record(records, index[matched].records_offset).kind = "Ok")
       => IF index[matched].card_type \in 1..8
          THEN /\ findResult.kind = "Ok"
               /\ findResult.card_type = Descriptions[index[matched].card_type]
          ELSE findResult = FindErr("InvalidOpNo")

C8_Witness ==
    /\ pc = "done"
    /\ matched # 0
    /\ index[matched].card_type = 8
    /\ findResult.kind = "Ok"
    /\ findResult.card_type = "China Broadnet virtual operator"

\* C9: when a read of an index entry fails with an error other than
\* end-of-file, new returns an error: no entry is appended from the buffer
\* and the loop does not go on.
C9_IndexIoErrorSurfaced ==
    indexIoErrAt # -1
    => /\ pc = "failed"
       /\ loadResult = "InvalidPhoneDatabase"
       /\ Len(index) = indexIoErrAt

\* C10, as stated: for every file with index_offset >= 8 and at least
\* index_offset bytes (read without an I/O error), new returns Ok and the
\* index is the floor((length - index_offset) / 9) entries of the file, in
\* file order, 1 to 8 trailing bytes dropped.
C10_EveryFileLoads ==
    (/\ LoadFinished
     /\ ioErrors = 0
     /\ Len(file) >= 8
     /\ HeaderIndexOffset(file) >= 8
     /\ Len(file) >= HeaderIndexOffset(file))
    => /\ loadResult = "Ok"
       /\ index = ExpectedIndex(file)

\* C10, amended: the same, for the files whose 4 version bytes are UTF-8.
C10_IndexInFileOrder ==
    (/\ LoadFinished
     /\ ioErrors = 0
     /\ Len(file) >= 8
     /\ IsUtf8(Take(file, 4))
     /\ HeaderIndexOffset(file) >= 8
     /\ Len(file) >= HeaderIndexOffset(file))
    => /\ loadResult = "Ok"
       /\ index = ExpectedIndex(file)
       /\ Len(index) = (Len(file) - HeaderIndexOffset(file)) \div 9

C10_Witness ==
    /\ pc = "loaded"
    /\ ioErrors = 0
    /\ (Len(file) - HeaderIndexOffset(file)) % 9 = 5
    /\ Len(index) = 2
    /\ index[2].phone_no_prefix < 0
    /\ index = ExpectedIndex(file)

====
